---- MODULE Spec2Model ----
(***************************************************************************)
(* Model of pkg/cosign/verify.go: the two-phase verification pipeline      *)
(* Verify -> validSignatures -> verifyClaims, with VerifySignature,        *)
(* digestAndClaims and correctAnnotations as operators.                    *)
(*                                                                         *)
(* FetchSignatures is a collaborator: its results (the candidate list and   *)
(* the image descriptor, or an error) are drawn from bounded sets.         *)
(*                                                                         *)
(* Strings are TLA+ strings; Go's nil error is the record Nil; a Go slice  *)
(* is a record [nil, items] so that a nil slice and an empty slice differ. *)
(***************************************************************************)
EXTENDS Integers, Sequences, FiniteSets, TLC

\* ---------------------------------------------------------------- bounds
MaxCandidates == 3

\* ---------------------------------------------------------------- errors
Nil == [nil |-> TRUE, msg |-> ""]

Err(m) == [nil |-> FALSE, msg |-> m]

NilSlice == [nil |-> TRUE, items |-> <<>>]

Slice(s) == [nil |-> FALSE, items |-> s]

\* ------------------------------------------------------------ data model
\* map[string]string: a function from a finite set of keys to strings; the
\* nil map and the empty map behave alike for reads and both are EmptyMap.
EmptyMap == [k \in {} |-> ""]

Map1(k, v) == [x \in {k} |-> v]

Map2(k1, v1, k2, v2) == [x \in {k1, k2} |-> IF x = k1 THEN v1 ELSE v2]

\* Go map read: a missing key reads as the zero value "".
MapGet(m, k) == IF k \in DOMAIN m THEN m[k] ELSE ""

\* v1.Hash and its String method: Algorithm ":" Hex.
ZeroHash == [Algorithm |-> "", Hex |-> ""]

HashString(h) == h.Algorithm \o ":" \o h.Hex

\* The well-formed hashes (hex digits abbreviated).
ValidHashes == [Algorithm : {"sha256"}, Hex : {"abc", "def"}]

\* v1.NewHash as used by Hash.UnmarshalJSON: the inverse of String on the
\* well-formed hashes, an error on every other string.
NewHash(s) ==
  IF \E h \in ValidHashes : HashString(h) = s
  THEN [hash |-> CHOOSE h \in ValidHashes : HashString(h) = s, err |-> Nil]
  ELSE [hash |-> ZeroHash, err |-> Err("cannot parse hash: " \o s)]

OCIManifestSchema1 == "application/vnd.oci.image.manifest.v1+json"

SimpleSigningMediaType == "application/vnd.dev.cosign.simplesigning.v1+json"

DockerManifestSchema2 == "application/vnd.docker.distribution.manifest.v2+json"

MediaTypes == {OCIManifestSchema1, SimpleSigningMediaType, DockerManifestSchema2}

\* Payload bytes, described by what encoding/json sees in them: whether they
\* are a JSON object at all, and the fields the two decoders look at
\* (<<>> = field absent, <<s>> = field present with string s).
Garbage ==
  [json |-> FALSE, digest |-> <<>>, annotations |-> EmptyMap,
   critical |-> <<>>, optional |-> EmptyMap]

SimpleSigningDoc(dig, opt) ==
  [json |-> TRUE, digest |-> <<>>, annotations |-> EmptyMap,
   critical |-> <<dig>>, optional |-> opt]

DescriptorDoc(dig, ann) ==
  [json |-> TRUE, digest |-> <<dig>>, annotations |-> ann,
   critical |-> <<>>, optional |-> EmptyMap]

PayloadSet ==
  { Garbage,
    SimpleSigningDoc("sha256:abc", Map2("k", "v", "x", "y")),
    SimpleSigningDoc("sha256:abc", EmptyMap),
    SimpleSigningDoc("sha256:def", Map1("k", "v")),
    DescriptorDoc("sha256:abc", Map1("k", "v")),
    DescriptorDoc("nohash", EmptyMap) }

\* ed25519: a signature is determined by the key pair that made it and the
\* exact message bytes it covers.
PubKeys == {"pub1"}

Signers == {"pub1", "pub2"}

Sign(signer, msg) == [signer |-> signer, msg |-> msg]

ed25519Verify(pubkey, payload, signature) ==
  signature.signer = pubkey /\ signature.msg = payload

\* base64 text: either not decodable, or the encoding of a signature.
Base64Of(sig) == [b64 |-> TRUE, sig |-> sig]

BadBase64 == [b64 |-> FALSE, sig |-> Sign("pub1", Garbage)]

base64DecodeString(s) ==
  IF s.b64 THEN [bytes |-> s.sig, err |-> Nil]
  ELSE [bytes |-> s.sig, err |-> Err("illegal base64 data at input byte 0")]

SignedPayload(b64sig, payload) == [Base64Signature |-> b64sig, Payload |-> payload]

FullDoc == SimpleSigningDoc("sha256:abc", Map2("k", "v", "x", "y"))

CandidateSet ==
  { SignedPayload(Base64Of(Sign("pub1", p)), p) : p \in PayloadSet }
  \cup { SignedPayload(Base64Of(Sign(k, FullDoc)), FullDoc) : k \in Signers }
  \cup { SignedPayload(BadBase64, FullDoc),
         SignedPayload(Base64Of(Sign("pub1", Garbage)), FullDoc) }

RECURSIVE SeqsUpTo(_, _)
SeqsUpTo(S, n) ==
  IF n = 0 THEN {<<>>}
  ELSE LET shorter == SeqsUpTo(S, n - 1)
       IN shorter \cup {Append(s, x) : s \in {t \in shorter : Len(t) = n - 1}, x \in S}

Descriptors == [Digest : ValidHashes, MediaType : MediaTypes]

WantedSet == {EmptyMap, Map1("k", "v"), Map1("k", ""), Map1("k", "w")}

\* ------------------------------------------------------- pure functions
\* strings.Join
RECURSIVE Join(_, _)
Join(elems, sep) ==
  IF Len(elems) = 0 THEN ""
  ELSE IF Len(elems) = 1 THEN elems[1]
  ELSE elems[1] \o sep \o Join(Tail(elems), sep)

\* fmt's %v of a map[string]string: "map[k:v k2:v2]", keys sorted.
KeyOrder == <<"k", "x">>

RECURSIVE FmtEntries(_, _)
FmtEntries(m, n) ==
  IF n > Len(KeyOrder) THEN <<>>
  ELSE (IF KeyOrder[n] \in DOMAIN m
        THEN <<KeyOrder[n] \o ":" \o m[KeyOrder[n]]>> ELSE <<>>)
       \o FmtEntries(m, n + 1)

FmtMap(m) == "map[" \o Join(FmtEntries(m, 1), " ") \o "]"

VerifySignature_IgnoresKey(pubkey, base64sig, payload) ==
  LET dec == base64DecodeString(base64sig)
  IN IF ~dec.err.nil THEN dec.err
     ELSE IF dec.bytes.msg # payload
          THEN Err("unable to verify signature")
          ELSE Nil

VerifySignature(pubkey, base64sig, payload) ==
  LET dec == base64DecodeString(base64sig)
  IN IF ~dec.err.nil THEN dec.err
     ELSE IF ~ed25519Verify(pubkey, payload, dec.bytes)
          THEN Err("unable to verify signature")
          ELSE Nil

\* json.Unmarshal(payload, &v1.Descriptor{})
UnmarshalDescriptor(payload) ==
  IF ~payload.json
  THEN [Digest |-> ZeroHash, Annotations |-> EmptyMap,
        err |-> Err("invalid character looking for beginning of value")]
  ELSE IF payload.digest = <<>>
  THEN [Digest |-> ZeroHash, Annotations |-> payload.annotations, err |-> Nil]
  ELSE LET h == NewHash(payload.digest[1])
       IN IF ~h.err.nil
          THEN [Digest |-> ZeroHash, Annotations |-> EmptyMap, err |-> h.err]
          ELSE [Digest |-> h.hash, Annotations |-> payload.annotations, err |-> Nil]

\* json.Unmarshal(payload, &SimpleSigning{})
UnmarshalSimpleSigning(payload) ==
  IF ~payload.json
  THEN [DockerManifestDigest |-> "", Optional |-> EmptyMap,
        err |-> Err("invalid character looking for beginning of value")]
  ELSE [DockerManifestDigest |->
          IF payload.critical = <<>> THEN "" ELSE payload.critical[1],
        Optional |-> payload.optional, err |-> Nil]

Claims(digest, annotations, err) ==
  [digest |-> digest, annotations |-> annotations, err |-> err]

digestAndClaims(desc, sp) ==
  IF desc.MediaType = OCIManifestSchema1
  THEN LET d == UnmarshalDescriptor(sp.Payload)
       IN IF ~d.err.nil THEN Claims("", EmptyMap, d.err)
          ELSE Claims(HashString(d.Digest), d.Annotations, Nil)
  ELSE IF desc.MediaType = SimpleSigningMediaType
  THEN LET ss == UnmarshalSimpleSigning(sp.Payload)
       IN IF ~ss.err.nil THEN Claims("", EmptyMap, ss.err)
          ELSE Claims(ss.DockerManifestDigest, ss.Optional, Nil)
  ELSE Claims("", EmptyMap,
              Err("unexpected mediaType for " \o HashString(desc.Digest)
                  \o ": " \o desc.MediaType))

correctAnnotations(wanted, have) ==
  \A k \in DOMAIN wanted : MapGet(have, k) = wanted[k]

\* ---------------------------------------------------------------- state
VARIABLES
  pc,                \* position in Verify: "Verify", "validSignatures",
                     \* "checkClaims", "verifyClaims", "done"
  pubKey,            \* Verify's arguments
  checkClaims,
  annotations,
  signatures,        \* what FetchSignatures returned
  desc,
  si,                \* validSignatures: index of the next element of the range loop
  validSigs,         \* validSignatures: the local validSignatures
  validationErrs,    \* validSignatures: the local validationErrs
  valid,             \* Verify: the local valid
  ci,                \* verifyClaims: index of the next element of the range loop
  checkClaimErrs,    \* verifyClaims: the local checkClaimErrs
  verifiedPayloads,  \* verifyClaims: the local verifiedPayloads
  retPayloads,       \* Verify's results
  retErr,
  origin,            \* history: candidate index of each element of validSigs
  examined1,         \* history: candidate indices VerifySignature was called on
  examined2,         \* history: candidate indices digestAndClaims was called on
  matched,           \* history: arguments and result of each correctAnnotations call
  itemState          \* history: state of each candidate in the item state machine

vars ==
  <<pc, pubKey, checkClaims, annotations, signatures, desc, si, validSigs,
    validationErrs, valid, ci, checkClaimErrs, verifiedPayloads, retPayloads,
    retErr, origin, examined1, examined2, matched, itemState>>

args == <<pubKey, checkClaims, annotations>>

fetched == <<signatures, desc>>

phase1 == <<si, validSigs, validationErrs, origin, examined1>>

phase2 == <<ci, checkClaimErrs, verifiedPayloads, examined2, matched>>

rets == <<retPayloads, retErr>>

Init ==
  /\ pc = "Verify"
  /\ pubKey \in PubKeys
  /\ checkClaims \in BOOLEAN
  /\ annotations \in WantedSet
  /\ signatures = <<>>
  /\ desc = [Digest |-> ZeroHash, MediaType |-> ""]
  /\ si = 1
  /\ validSigs = <<>>
  /\ validationErrs = <<>>
  /\ valid = NilSlice
  /\ ci = 1
  /\ checkClaimErrs = <<>>
  /\ verifiedPayloads = <<>>
  /\ retPayloads = NilSlice
  /\ retErr = Nil
  /\ origin = <<>>
  /\ examined1 = <<>>
  /\ examined2 = <<>>
  /\ matched = <<>>
  /\ itemState = <<>>

\* ------------------------------------------------------------- actions
\* Verify, lines 100-103: FetchSignatures fails and Verify returns its error.
FetchSignaturesFails ==
  /\ pc = "Verify"
  /\ retPayloads' = NilSlice
  /\ retErr' = Err("fetching signatures")
  /\ pc' = "done"
  /\ UNCHANGED <<args, fetched, phase1, valid, phase2, itemState>>

\* Verify, line 100: FetchSignatures returns the candidates and the descriptor.
FetchSignaturesReturns ==
  /\ pc = "Verify"
  /\ \E sigs \in SeqsUpTo(CandidateSet, MaxCandidates), d \in Descriptors :
       /\ signatures' = sigs
       /\ desc' = d
       /\ itemState' = [n \in 1..Len(sigs) |-> "Candidate"]
  /\ pc' = "validSignatures"
  /\ UNCHANGED <<args, phase1, valid, phase2, rets>>

\* validSignatures' loop with `break` in place of `continue`.
validSignaturesLoop_Break ==
  /\ pc = "validSignatures"
  /\ si <= Len(signatures)
  /\ LET sp == signatures[si]
         err == VerifySignature(pubKey, sp.Base64Signature, sp.Payload)
     IN IF ~err.nil
        THEN /\ validationErrs' = Append(validationErrs, err.msg)
             /\ itemState' = [itemState EXCEPT ![si] = "SignatureInvalid"]
             /\ si' = Len(signatures) + 1
             /\ UNCHANGED <<validSigs, origin>>
        ELSE /\ validSigs' = Append(validSigs, sp)
             /\ origin' = Append(origin, si)
             /\ itemState' = [itemState EXCEPT ![si] = "SignatureValid"]
             /\ si' = si + 1
             /\ UNCHANGED validationErrs
  /\ examined1' = Append(examined1, si)
  /\ UNCHANGED <<pc, args, fetched, valid, phase2, rets>>

\* validSignatures' loop building its result by prepending.
validSignaturesLoop_Prepend ==
  /\ pc = "validSignatures"
  /\ si <= Len(signatures)
  /\ LET sp == signatures[si]
         err == VerifySignature(pubKey, sp.Base64Signature, sp.Payload)
     IN IF ~err.nil
        THEN /\ validationErrs' = Append(validationErrs, err.msg)
             /\ itemState' = [itemState EXCEPT ![si] = "SignatureInvalid"]
             /\ UNCHANGED <<validSigs, origin>>
        ELSE /\ validSigs' = <<sp>> \o validSigs
             /\ origin' = <<si>> \o origin
             /\ itemState' = [itemState EXCEPT ![si] = "SignatureValid"]
             /\ UNCHANGED validationErrs
  /\ examined1' = Append(examined1, si)
  /\ si' = si + 1
  /\ UNCHANGED <<pc, args, fetched, valid, phase2, rets>>

\* validSignatures, lines 133-139: one iteration of the range loop.
validSignaturesLoop ==
  /\ pc = "validSignatures"
  /\ si <= Len(signatures)
  /\ LET sp == signatures[si]
         err == VerifySignature(pubKey, sp.Base64Signature, sp.Payload)
     IN IF ~err.nil
        THEN /\ validationErrs' = Append(validationErrs, err.msg)
             /\ itemState' = [itemState EXCEPT ![si] = "SignatureInvalid"]
             /\ UNCHANGED <<validSigs, origin>>
        ELSE /\ validSigs' = Append(validSigs, sp)
             /\ origin' = Append(origin, si)
             /\ itemState' = [itemState EXCEPT ![si] = "SignatureValid"]
             /\ UNCHANGED validationErrs
  /\ examined1' = Append(examined1, si)
  /\ si' = si + 1
  /\ UNCHANGED <<pc, args, fetched, valid, phase2, rets>>

\* validSignatures without the `len(validSignatures) == 0` check.
validSignaturesReturn_NoCheck ==
  /\ pc = "validSignatures"
  /\ si > Len(signatures)
  /\ valid' = Slice(validSigs)
  /\ pc' = "checkClaims"
  /\ UNCHANGED <<args, fetched, phase1, phase2, rets, itemState>>

\* validSignatures, lines 141-144, and Verify, lines 110-113.
validSignaturesReturn ==
  /\ pc = "validSignatures"
  /\ si > Len(signatures)
  /\ IF Len(validSigs) = 0
     THEN /\ retPayloads' = NilSlice
          /\ retErr' = Err("no matching signatures:\n"
                           \o Join(validationErrs, "\n  "))
          /\ pc' = "done"
          /\ UNCHANGED valid
     ELSE /\ valid' = Slice(validSigs)
          /\ pc' = "checkClaims"
          /\ UNCHANGED rets
  /\ UNCHANGED <<args, fetched, phase1, phase2, itemState>>

\* Verify without the `!checkClaims` early return.
VerifyCheckClaims_Always ==
  /\ pc = "checkClaims"
  /\ pc' = "verifyClaims"
  /\ UNCHANGED <<args, fetched, phase1, valid, phase2, rets, itemState>>

\* Verify, lines 116-118.
VerifyCheckClaims ==
  /\ pc = "checkClaims"
  /\ IF ~checkClaims
     THEN /\ retPayloads' = valid
          /\ retErr' = Nil
          /\ pc' = "done"
     ELSE /\ pc' = "verifyClaims"
          /\ UNCHANGED rets
  /\ UNCHANGED <<args, fetched, phase1, valid, phase2, itemState>>

\* verifyClaims returning the extraction error at once.
verifyClaimsLoop_Abort ==
  /\ pc = "verifyClaims"
  /\ ci <= Len(valid.items)
  /\ LET sp == valid.items[ci]
         found == digestAndClaims(desc, sp)
     IN IF ~found.err.nil
        THEN /\ retPayloads' = NilSlice
             /\ retErr' = found.err
             /\ pc' = "done"
             /\ itemState' = [itemState EXCEPT ![origin[ci]] = "ClaimInvalid"]
             /\ UNCHANGED <<checkClaimErrs, verifiedPayloads, matched>>
        ELSE /\ UNCHANGED <<pc, rets>>
             /\ IF found.digest # HashString(desc.Digest)
                THEN /\ checkClaimErrs' =
                          Append(checkClaimErrs,
                                 "invalid or missing digest in claim: "
                                 \o found.digest)
                     /\ itemState' =
                          [itemState EXCEPT ![origin[ci]] = "ClaimInvalid"]
                     /\ UNCHANGED <<verifiedPayloads, matched>>
                ELSE /\ matched' = Append(matched,
                          [wanted |-> annotations, have |-> found.annotations,
                           ok |-> correctAnnotations(annotations,
                                                     found.annotations)])
                     /\ IF ~correctAnnotations(annotations, found.annotations)
                        THEN /\ checkClaimErrs' =
                                  Append(checkClaimErrs,
                                         "invalid or missing annotation in claim: "
                                         \o FmtMap(found.annotations))
                             /\ itemState' =
                                  [itemState EXCEPT ![origin[ci]] = "ClaimInvalid"]
                             /\ UNCHANGED verifiedPayloads
                        ELSE /\ verifiedPayloads' = Append(verifiedPayloads, sp)
                             /\ UNCHANGED checkClaimErrs
                             /\ itemState' =
                                  [itemState EXCEPT ![origin[ci]] = "ClaimValid"]
  /\ examined2' = Append(examined2, origin[ci])
  /\ ci' = ci + 1
  /\ UNCHANGED <<args, fetched, phase1, valid>>

\* verifyClaims, lines 152-166: one iteration of the range loop.  An
\* extraction error is recorded and the iteration goes on to the digest
\* comparison with the empty foundDigest.
verifyClaimsLoop ==
  /\ pc = "verifyClaims"
  /\ ci <= Len(valid.items)
  /\ LET sp == valid.items[ci]
         found == digestAndClaims(desc, sp)
         errs1 == IF ~found.err.nil
                  THEN Append(checkClaimErrs, found.err.msg)
                  ELSE checkClaimErrs
     IN IF found.digest # HashString(desc.Digest)
        THEN /\ checkClaimErrs' =
                  Append(errs1, "invalid or missing digest in claim: "
                                \o found.digest)
             /\ itemState' = [itemState EXCEPT ![origin[ci]] = "ClaimInvalid"]
             /\ UNCHANGED <<verifiedPayloads, matched>>
        ELSE /\ matched' = Append(matched,
                  [wanted |-> annotations, have |-> found.annotations,
                   ok |-> correctAnnotations(annotations, found.annotations)])
             /\ IF ~correctAnnotations(annotations, found.annotations)
                THEN /\ checkClaimErrs' =
                          Append(errs1, "invalid or missing annotation in claim: "
                                        \o FmtMap(found.annotations))
                     /\ itemState' =
                          [itemState EXCEPT ![origin[ci]] = "ClaimInvalid"]
                     /\ UNCHANGED verifiedPayloads
                ELSE /\ verifiedPayloads' = Append(verifiedPayloads, sp)
                     /\ checkClaimErrs' = errs1
                     /\ itemState' =
                          [itemState EXCEPT ![origin[ci]] = "ClaimValid"]
  /\ examined2' = Append(examined2, origin[ci])
  /\ ci' = ci + 1
  /\ UNCHANGED <<pc, args, fetched, phase1, valid, rets>>

\* verifyClaims without the `len(verifiedPayloads) == 0` check.
verifyClaimsReturn_NoCheck ==
  /\ pc = "verifyClaims"
  /\ ci > Len(valid.items)
  /\ retPayloads' = Slice(verifiedPayloads)
  /\ retErr' = Nil
  /\ pc' = "done"
  /\ UNCHANGED <<args, fetched, phase1, valid, phase2, itemState>>

\* verifyClaims, lines 167-170, and Verify, lines 121-126.
verifyClaimsReturn ==
  /\ pc = "verifyClaims"
  /\ ci > Len(valid.items)
  /\ IF Len(verifiedPayloads) = 0
     THEN /\ retPayloads' = NilSlice
          /\ retErr' = Err("no matching claims:\n"
                           \o Join(checkClaimErrs, "\n  "))
     ELSE /\ retPayloads' = Slice(verifiedPayloads)
          /\ retErr' = Nil
  /\ pc' = "done"
  /\ UNCHANGED <<args, fetched, phase1, valid, phase2, itemState>>

Next ==
  \/ FetchSignaturesFails
  \/ FetchSignaturesReturns
  \/ validSignaturesLoop
  \/ validSignaturesReturn
  \/ VerifyCheckClaims
  \/ verifyClaimsLoop
  \/ verifyClaimsReturn

Spec == Init /\ [][Next]_vars

\* ------------------------------------------------------------ properties
\* What the claims speak about, stated without the pipeline's own operators.

\* The candidate's signature text is base64 and decodes to the signature the
\* holder of pubKey makes over exactly the candidate's payload bytes.
Genuine(sp) ==
  /\ sp.Base64Signature.b64
  /\ sp.Base64Signature.sig.signer = pubKey
  /\ sp.Base64Signature.sig.msg = sp.Payload

\* The failure message phase 1 owes a candidate that is not Genuine.
SignatureFailure(sp) ==
  IF ~sp.Base64Signature.b64 THEN "illegal base64 data at input byte 0"
  ELSE "unable to verify signature"

\* The claim a payload carries under the descriptor's media type, if any.
Extractable(sp) ==
  /\ sp.Payload.json
  /\ \/ desc.MediaType = SimpleSigningMediaType
     \/ /\ desc.MediaType = OCIManifestSchema1
        /\ \A n \in DOMAIN sp.Payload.digest :
             sp.Payload.digest[n] \in {"sha256:abc", "sha256:def"}

ClaimedDigest(sp) ==
  IF desc.MediaType = SimpleSigningMediaType
  THEN (IF sp.Payload.critical = <<>> THEN "" ELSE sp.Payload.critical[1])
  ELSE (IF sp.Payload.digest = <<>> THEN ":" ELSE sp.Payload.digest[1])

ClaimedAnnotations(sp) ==
  IF desc.MediaType = SimpleSigningMediaType
  THEN sp.Payload.optional ELSE sp.Payload.annotations

\* Every wanted key is present in have with an identical value.
SubsetMatch(wanted, have) ==
  \A k \in DOMAIN wanted : k \in DOMAIN have /\ have[k] = wanted[k]

ClaimMatches(sp) ==
  /\ Extractable(sp)
  /\ ClaimedDigest(sp) = "sha256:" \o desc.Digest.Hex
  /\ SubsetMatch(annotations, ClaimedAnnotations(sp))

FetchFailed == pc = "done" /\ retErr = Err("fetching signatures")

Returned == pc = "done" /\ ~FetchFailed

Phase1Done == pc \in {"checkClaims", "verifyClaims", "done"} /\ ~FetchFailed

Phase2Done == Returned /\ checkClaims /\ ~valid.nil

GenuineIndices == SelectSeq([n \in 1..Len(signatures) |-> n],
                            LAMBDA n : Genuine(signatures[n]))

KeptIndices == SelectSeq([n \in 1..Len(signatures) |-> n],
                         LAMBDA n : itemState[n] = "ClaimValid")

\* C1: every returned payload, every phase 1 survivor and every candidate
\* handed to phase 2 carries a signature that verifies under the supplied
\* public key; a candidate that fails VerifySignature is never among them.
C1_OnlyVerifiedReachPhase2 ==
  /\ \A n \in DOMAIN retPayloads.items : Genuine(retPayloads.items[n])
  /\ \A n \in DOMAIN valid.items : Genuine(valid.items[n])
  /\ \A n \in DOMAIN verifiedPayloads : Genuine(verifiedPayloads[n])
  /\ \A n \in DOMAIN examined2 : Genuine(signatures[examined2[n]])

C1_Witness ==
  /\ Returned /\ checkClaims /\ ~retPayloads.nil
  /\ \E n \in DOMAIN signatures :
       /\ ~Genuine(signatures[n])
       /\ signatures[n].Base64Signature.b64
       /\ ClaimMatches(signatures[n])
  /\ \E n \in DOMAIN signatures : ~signatures[n].Base64Signature.b64

\* C2: when at least one candidate verifies, validSignatures returns exactly
\* the subsequence of the candidates that verify, in input order.
C2_ValidSignaturesIsFilter ==
  Phase1Done /\ (\E n \in DOMAIN signatures : Genuine(signatures[n]))
    => valid = Slice(SelectSeq(signatures, Genuine))

C2_Witness ==
  /\ Phase1Done
  /\ Len(signatures) = 3
  /\ Genuine(signatures[1]) /\ ~Genuine(signatures[2]) /\ Genuine(signatures[3])
  /\ signatures[1] # signatures[3]
  /\ Len(valid.items) = 2

\* C3: if every candidate fails phase 1 (an empty candidate list included),
\* the call fails with the NoValidSignatures error, returns no payload list,
\* and the error joins one failure message per candidate in candidate order.
C3_NoValidSignatures ==
  Returned /\ (\A n \in DOMAIN signatures : ~Genuine(signatures[n]))
    => /\ retPayloads = NilSlice
       /\ Len(validationErrs) = Len(signatures)
       /\ retErr = Err("no matching signatures:\n"
                       \o Join([n \in 1..Len(signatures) |->
                                  SignatureFailure(signatures[n])], "\n  "))

C3_Witness ==
  /\ Returned
  /\ Len(signatures) = 3
  /\ \A n \in DOMAIN signatures : ~Genuine(signatures[n])
  /\ ~signatures[1].Base64Signature.b64
  /\ signatures[2].Base64Signature.b64
  /\ ~retErr.nil

\* C4: when checkClaims is false, phase 2 is never entered and the result is
\* exactly the phase 1 survivor list, whatever the descriptor, the wanted
\* annotations and the payload contents are.
C4_NoClaimCheckSkipsPhase2 ==
  ~checkClaims
    => /\ pc # "verifyClaims"
       /\ examined2 = <<>> /\ matched = <<>>
       /\ checkClaimErrs = <<>> /\ verifiedPayloads = <<>>
       /\ (Returned /\ (\E n \in DOMAIN signatures : Genuine(signatures[n]))
             => /\ retPayloads = Slice(SelectSeq(signatures, Genuine))
                /\ retErr = Nil)

C4_Witness ==
  /\ Returned /\ ~checkClaims /\ ~retPayloads.nil
  /\ \E n \in DOMAIN retPayloads.items : ~Extractable(retPayloads.items[n])
  /\ \E n \in DOMAIN retPayloads.items :
       /\ Extractable(retPayloads.items[n])
       /\ ~ClaimMatches(retPayloads.items[n])

\* C5: when checkClaims is true and phase 2 retains at least one item, the
\* result is exactly the subsequence of phase 1 survivors whose claim
\* extraction succeeded, whose digest equals the descriptor digest and whose
\* annotations hold every wanted key with an identical value.
C5_VerifyClaimsIsFilter ==
  Phase2Done /\ ~retPayloads.nil
    => retPayloads.items = SelectSeq(valid.items, ClaimMatches)

\* C6: correctAnnotations(wanted, have) is true if and only if every key of
\* wanted is present in have with an identical value.
C6_CorrectAnnotationsIsSubset ==
  \A n \in DOMAIN matched :
    matched[n].ok <=> SubsetMatch(matched[n].wanted, matched[n].have)

\* C7: a phase 1 survivor whose claim extraction fails is never kept, and it
\* does not abort the batch: every survivor is still examined, and the call
\* fails only with the aggregated NoMatchingClaims error, exactly when no
\* survivor is kept.
C7_ExtractionFailureIsPerItem ==
  /\ \A n \in DOMAIN verifiedPayloads : Extractable(verifiedPayloads[n])
  /\ Phase2Done
       => /\ examined2 = GenuineIndices
          /\ \A n \in DOMAIN retPayloads.items : Extractable(retPayloads.items[n])
          /\ retErr.nil <=> (verifiedPayloads # <<>>)
          /\ ~retErr.nil
               => retErr = Err("no matching claims:\n"
                               \o Join(checkClaimErrs, "\n  "))

C7_Witness ==
  /\ Phase2Done
  /\ Len(valid.items) = 3
  /\ ~Extractable(valid.items[1])
  /\ ~Extractable(valid.items[2])
  /\ retPayloads = Slice(<<valid.items[3]>>)

\* C8: a call ends either with a non-empty payload list and no error, or
\* with an error and no payload list; when claims are checked and phase 2
\* keeps nothing, the error is NoMatchingClaims with the joined messages.
C8_ListXorError ==
  pc = "done"
    => /\ \/ retErr.nil /\ ~retPayloads.nil /\ Len(retPayloads.items) > 0
          \/ ~retErr.nil /\ retPayloads = NilSlice
       /\ (Phase2Done /\ verifiedPayloads = <<>>)
            => /\ retPayloads = NilSlice
               /\ retErr = Err("no matching claims:\n"
                               \o Join(checkClaimErrs, "\n  "))

C8_Witness ==
  /\ Phase2Done
  /\ Len(valid.items) = 2
  /\ retPayloads = NilSlice
  /\ Len(checkClaimErrs) >= 2
  /\ ~retErr.nil

\* C9: a per-item failure never halts orchestration.  Each phase examines
\* every item of its input exactly once and in order; phase 2 starts only
\* after phase 1 has processed all candidates; the call stops before phase 2
\* only when phase 1 has no survivor (or claims are not checked); and every
\* candidate ends in exactly the state its checks give it.
C9_PerItemFailureNeverHalts ==
  /\ Phase1Done => examined1 = [n \in 1..Len(signatures) |-> n]
  /\ (pc = "verifyClaims" \/ examined2 # <<>>)
       => /\ Len(examined1) = Len(signatures)
          /\ checkClaims /\ ~valid.nil
          /\ examined2 = SubSeq(GenuineIndices, 1, Len(examined2))
  /\ Returned
       => /\ examined2 = (IF checkClaims THEN GenuineIndices ELSE <<>>)
          /\ \A n \in DOMAIN signatures :
               ~Genuine(signatures[n]) => itemState[n] = "SignatureInvalid"
          /\ \A n \in DOMAIN signatures :
               (Genuine(signatures[n]) /\ ~checkClaims)
                 => itemState[n] = "SignatureValid"
          /\ \A n \in DOMAIN signatures :
               itemState[n] \in
                 {"SignatureInvalid", "SignatureValid", "ClaimValid", "ClaimInvalid"}
          /\ \A n \in DOMAIN signatures :
               (Genuine(signatures[n]) /\ checkClaims)
                 => itemState[n] \in {"ClaimValid", "ClaimInvalid"}
          /\ verifiedPayloads =
               [m \in 1..Len(KeptIndices) |-> signatures[KeptIndices[m]]]

C9_Witness ==
  /\ Returned /\ checkClaims
  /\ itemState = <<"SignatureInvalid", "ClaimInvalid", "ClaimValid">>
  /\ ~Extractable(signatures[2])

\* C10: in phase 2 each dropped survivor contributes exactly one failure
\* message, so the number of recorded messages equals the number of dropped
\* survivors.
C10_OneMessagePerDroppedSurvivor ==
  Len(checkClaimErrs) = Len(examined2) - Len(verifiedPayloads)

====
